---- MODULE Spec2Model ----
(***************************************************************************)
(* Model of the extraction-and-resilience pipeline of the energy-market   *)
(* ETL client: the OAuth2 token manager (etl_client/auth/token_manager.py),*)
(* the retrying extractor (etl_client/extractors/base.py), the health     *)
(* checker (etl_client/health/checker.py) and the orchestrator            *)
(* (etl_client/main.py).                                                   *)
(*                                                                         *)
(* Python's None is modelled as the empty sequence and a present value x  *)
(* as <<x>>, so that optional fields stay comparable.  Time is counted in *)
(* whole seconds.                                                          *)
(***************************************************************************)
EXTENDS Integers, Sequences, FiniteSets, TLC

VARIABLES
    settings,       \* the Settings object (config.py), fixed for a run
    now,            \* time.time()
    token,          \* TokenManager._token
    tokenRequests,  \* POST /oauth/token requests sent so far (by traced calls)
    issued,         \* tokens the token endpoint has issued so far
    tmLog,          \* the last two operations called on the TokenManager
    callers,        \* coroutines inside get_token (concurrent callers)
    ewr,            \* the extract_with_retry call in progress: arguments and locals
    attemptLog,     \* what the last two extract() calls of that call did
    extractCalls,   \* extract() calls made by that call
    sleeps,         \* the asyncio.sleep durations of that call, in order
    pl,             \* run_etl_cycle: where it is, and how the last cycle ended
    results,        \* the results dict of the cycle
    buffer,         \* HealthChecker._metrics_buffer
    stages,         \* per source, how far its block of the cycle got
    hc,             \* the last call a direct caller made on the HealthChecker
    run,            \* the entry point (main, run_once or run_scheduled) in progress
    db,             \* a table of the database, and the last load_* call made on it
    srv             \* the mock server: the tokens it issued, the last request it answered

tmVars == <<token, tokenRequests, issued>>
exVars == <<ewr, attemptLog, extractCalls, sleeps>>
plVars == <<pl, results, buffer, stages>>
appVars == <<hc, run, db, srv>>
vars == <<settings, now, tmVars, tmLog, callers, exVars, plVars, appVars>>

(***************************************************************************)
(* Bounds of the model.                                                    *)
(***************************************************************************)
MaxMargin == 1
MaxLifetime == 2
MaxLatency == 1
MaxTime == 4
MaxRequests == 2
MaxRetries == 2
MaxDelay == 1
MaxRows == 1
MaxCycles == 1
MaxBuffer == 4
MaxRunCycles == 2
MaxKeys == 2
MaxLoads == 2
MaxHanded == 2
NumCallers == 2

None == << >>
Some(x) == <<x>>

(***************************************************************************)
(* config.py: the recognised settings.  The values are environment-sourced;*)
(* a run draws them from small sets.                                       *)
(***************************************************************************)
Settings ==
    [ token_refresh_margin_seconds : 0..MaxMargin,
      etl_max_retries : 1..MaxRetries,
      etl_retry_delay_seconds : 1..MaxDelay,
      etl_poll_interval_seconds : {1} ]

(***************************************************************************)
(* Exceptions.  httpx.HTTPStatusError carries the response's status code; *)
(* httpx.RequestError is a transport-level failure with no response;      *)
(* JSONDecodeError and KeyError come from decoding a body and are neither.*)
(***************************************************************************)
Raise(kind, status) == [exc |-> Some(kind), status |-> status, value |-> None]
Return(v) == [exc |-> None, status |-> None, value |-> Some(v)]
Raised(r) == r.exc # None

(***************************************************************************)
(* What the token endpoint may answer to POST /oauth/token.                *)
(***************************************************************************)
TokenResponses ==
    [kind : {"response"}, status : {200}, body : {"json"},
     expires_in : 0..MaxLifetime]
    \cup [kind : {"response"}, status : {200}, body : {"not_json", "missing_field"},
          expires_in : {0}]
    \cup [kind : {"response"}, status : {401}, body : {"json"},
          expires_in : {0}]
    \cup [kind : {"transport"}, status : {0}, body : {"json"},
          expires_in : {0}]

IsSuccessStatus(status) == status >= 200 /\ status <= 299

(***************************************************************************)
(* Token.expires_at, Token.is_expired                                      *)
(***************************************************************************)
expires_at(tok) == tok.acquired_at + tok.expires_in

is_expired_strict(tok, margin_seconds, t) == t > (expires_at(tok) - margin_seconds)

is_expired(tok, margin_seconds, t) == t >= (expires_at(tok) - margin_seconds)

(***************************************************************************)
(* TokenManager._acquire_token, given the endpoint's answer resp, the     *)
(* clock t read after the response is parsed and the access value n the   *)
(* endpoint issues.  The POST itself takes no model time.                  *)
(***************************************************************************)
acquire_token(resp, t, n) ==
    IF resp.kind = "transport" THEN Raise("RequestError", None)
    ELSE IF ~IsSuccessStatus(resp.status)
         THEN Raise("HTTPStatusError", Some(resp.status))
    ELSE IF resp.body = "not_json" THEN Raise("JSONDecodeError", None)
    ELSE IF resp.body = "missing_field" THEN Raise("KeyError", None)
    ELSE Return([access_token |-> n, token_type |-> "Bearer",
                 expires_in |-> resp.expires_in, acquired_at |-> t])

(***************************************************************************)
(* TokenManager.get_token called at time t with cached credential tok.    *)
(* Yields the new cache, the result (access value or exception), whether a*)
(* POST was sent, and the time at return.                                  *)
(***************************************************************************)
get_token_no_cache(tok, margin, resp, t, n) ==
    LET a == acquire_token(resp, t, n)
    IN  [token |-> IF Raised(a) THEN tok ELSE a.value,
         result |-> IF Raised(a) THEN a ELSE Return(a.value[1].access_token),
         posted |-> TRUE, t |-> t]

get_token_no_expiry_check(tok, margin, resp, t, n) ==
    IF tok = None
    THEN get_token_no_cache(tok, margin, resp, t, n)
    ELSE [token |-> tok, result |-> Return(tok[1].access_token),
          posted |-> FALSE, t |-> t]

\* get_token dropping the cached credential when the acquisition fails
get_token_drop_on_failure(tok, margin, resp, t, n) ==
    IF tok = None \/ is_expired(tok[1], margin, t)
    THEN LET a == acquire_token(resp, t, n)
         IN  [token |-> IF Raised(a) THEN None ELSE a.value,
              result |-> IF Raised(a) THEN a ELSE Return(a.value[1].access_token),
              posted |-> TRUE, t |-> t]
    ELSE [token |-> tok, result |-> Return(tok[1].access_token),
          posted |-> FALSE, t |-> t]

get_token(tok, margin, resp, t, n) ==
    IF tok = None \/ is_expired(tok[1], margin, t)
    THEN LET a == acquire_token(resp, t, n)
         IN  [token |-> IF Raised(a) THEN tok ELSE a.value,
              result |-> IF Raised(a) THEN a ELSE Return(a.value[1].access_token),
              posted |-> TRUE, t |-> t]
    ELSE [token |-> tok, result |-> Return(tok[1].access_token),
          posted |-> FALSE, t |-> t]

(***************************************************************************)
(* TokenManager.invalidate_token                                           *)
(***************************************************************************)
invalidate_token_keep(tok) == tok

invalidate_token(tok) == None

(***************************************************************************)
(* The state of the cache as a caller would describe it.                   *)
(***************************************************************************)
CacheState(tok, margin, t) ==
    IF tok = None THEN "absent"
    ELSE IF is_expired(tok[1], margin, t) THEN "expired" ELSE "valid"

\* the answers to a POST /oauth/token, when the call sends one
TokenResponsesFor(answers, tok, margin, t) ==
    IF CacheState(tok, margin, t) = "valid"
    THEN {CHOOSE r \in answers : TRUE}
    ELSE answers

LastTwo(log, e) == IF Len(log) < 2 THEN Append(log, e) ELSE <<log[2], e>>

Margin == settings.token_refresh_margin_seconds

(***************************************************************************)
(* No extract_with_retry call has been made.                               *)
(***************************************************************************)
NoCall ==
    [pc |-> "idle", endpoint |-> "", arg_max |-> None, arg_delay |-> None,
     max_retries |-> 0, retry_delay |-> 0, attempt |-> 0,
     data |-> None, health |-> None, exc |-> None]

(***************************************************************************)
(* The orchestrator (main.py) before any cycle: the three sources in the  *)
(* order run_etl_cycle handles them, the results dict as run_etl_cycle    *)
(* first builds it, and the empty metrics buffer.                          *)
(***************************************************************************)
Sources == <<"prices", "plant", "signals">>
SourceNames == {"prices", "plant", "signals"}

NoResults == [s \in SourceNames |-> [extracted |-> FALSE, loaded |-> 0]]
NoStages == [s \in SourceNames |-> "pending"]
\* what a cycle did with the shared TokenManager so far: the state of the
\* cache at its first get_token, the POSTs sent and credentials acquired, the
\* access values its GETs carried, and whether a get_token found the cached
\* credential expired or a GET was answered 401
NoUse == [start |-> "unset", posts |-> 0, acquired |-> 0, sent |-> {}, excused |-> FALSE]

NoCycle == [pc |-> "idle", src |-> 1, cycles |-> 0, flushes |-> 0, summary |-> None,
            use |-> NoUse]

\* no call has been made on the HealthChecker; main() has not been entered
NoHealthCall ==
    [op |-> "none", before |-> << >>, stored |-> << >>, handed |-> << >>,
     result |-> [exc |-> None, status |-> None, value |-> None]]

NoRun ==
    [mode |-> "none", pc |-> "idle", probe |-> None, interrupted |-> FALSE,
     closed |-> {}, result |-> [exc |-> None, status |-> None, value |-> None],
     exit_status |-> None]

\* no table is under observation, no load_* call has been made
NoLoad ==
    [batch |-> << >>, fail |-> [at |-> 0, kind |-> "none"], before |-> << >>,
     result |-> [exc |-> None, status |-> None, value |-> None],
     attempted |-> 0, stored |-> 0, repeat |-> FALSE]

NoDb == [table |-> "none", rows |-> << >>, loads |-> 0, last |-> NoLoad]

\* the mock server has issued no token and answered no request
NoServer ==
    [issued |-> {},
     last |-> [path |-> "", username |-> "", password |-> "", token |-> None,
               t |-> 0, status |-> 0, body |-> None]]

(***************************************************************************)
(* SpecTM: one TokenManager driven by an arbitrary sequential caller.      *)
(***************************************************************************)
InitTM ==
    /\ settings \in {s \in Settings : s.etl_max_retries = 1
                                      /\ s.etl_retry_delay_seconds = 1}
    /\ now = 0
    /\ token = None
    /\ tokenRequests = 0
    /\ issued = 0
    /\ tmLog = << >>
    /\ callers = << >>
    /\ ewr = NoCall
    /\ attemptLog = << >>
    /\ extractCalls = 0
    /\ sleeps = << >>
    /\ pl = NoCycle
    /\ results = NoResults
    /\ buffer = << >>
    /\ stages = NoStages
    /\ hc = NoHealthCall
    /\ run = NoRun
    /\ db = NoDb
    /\ srv = NoServer

TMGetToken ==
    /\ tokenRequests < MaxRequests
    /\ \E resp \in TokenResponses :
       \E r \in {get_token(token, Margin, resp, now, issued + 1)} :
             /\ token' = r.token
             /\ now' = r.t
             /\ tokenRequests' = tokenRequests + (IF r.posted THEN 1 ELSE 0)
             /\ issued' = issued + (IF r.posted /\ ~Raised(r.result) THEN 1 ELSE 0)
             /\ tmLog' = LastTwo(tmLog,
                    [op |-> "get_token",
                     before |-> CacheState(token, Margin, now),
                     posted |-> r.posted,
                     result |-> r.result,
                     tok |-> r.token,
                     t0 |-> now, t |-> r.t])
    /\ UNCHANGED <<appVars, settings, callers, exVars, plVars>>

TMInvalidate ==
    /\ token' = invalidate_token(token)
    /\ tmLog' = LastTwo(tmLog,
           [op |-> "invalidate_token",
            before |-> CacheState(token, Margin, now),
            posted |-> FALSE,
            result |-> Return(0),
            tok |-> token',
            t0 |-> 0, t |-> 0])
    /\ UNCHANGED <<appVars, settings, now, tokenRequests, issued, callers, exVars, plVars>>

Tick ==
    /\ now < MaxTime
    /\ now' = now + 1
    /\ UNCHANGED <<appVars, settings, tmVars, tmLog, callers, exVars, plVars>>

NextTM == TMGetToken \/ TMInvalidate \/ Tick

SpecTM == InitTM /\ [][NextTM]_vars

LastOp == tmLog[Len(tmLog)]

(***************************************************************************)
(* C6: after invalidate_token, the next get_token call sends a token      *)
(* request (and, when it succeeds, returns the value issued by that       *)
(* request), whether the credential cached before was valid, expired or   *)
(* absent.                                                                 *)
(***************************************************************************)
C6_InvalidateForcesAcquisition ==
    (Len(tmLog) = 2 /\ tmLog[1].op = "invalidate_token" /\ tmLog[2].op = "get_token")
        => /\ tmLog[2].posted
           /\ ~Raised(tmLog[2].result) => tmLog[2].result.value = Some(issued)

C6_Witness ==
    /\ Len(tmLog) = 2
    /\ tmLog[1].op = "invalidate_token" /\ tmLog[1].before = "valid"
    /\ tmLog[2].op = "get_token" /\ tmLog[2].posted /\ ~Raised(tmLog[2].result)

(***************************************************************************)
(* C7: two successive get_token calls, the first starting with no cached  *)
(* credential and succeeding, the second made while the clock is still    *)
(* before expiry minus margin of the credential the first acquired, send  *)
(* exactly one token request in total and return the same access value.   *)
(***************************************************************************)
C7_SecondCallUsesCache ==
    ( /\ Len(tmLog) = 2
      /\ tmLog[1].op = "get_token" /\ tmLog[2].op = "get_token"
      /\ tmLog[1].before = "absent" /\ ~Raised(tmLog[1].result)
      /\ tmLog[2].t0 < tmLog[1].tok[1].acquired_at + tmLog[1].tok[1].expires_in - Margin )
        => /\ tmLog[1].posted /\ ~tmLog[2].posted
           /\ tmLog[2].result = tmLog[1].result

C7_Witness ==
    /\ Len(tmLog) = 2
    /\ tmLog[1].op = "get_token" /\ tmLog[2].op = "get_token"
    /\ tmLog[1].before = "absent" /\ ~Raised(tmLog[1].result)
    /\ tmLog[2].t0 > tmLog[1].t
    /\ tmLog[2].t0 < tmLog[1].tok[1].acquired_at + tmLog[1].tok[1].expires_in - Margin
    /\ ~tmLog[2].posted

(***************************************************************************)
(* C8: for every cached credential, every margin and the clock value now, *)
(* is_expired(margin) is true iff now >= acquired_at + expires_in - margin*)
(* (inclusive at the boundary).                                            *)
(***************************************************************************)
C8_IsExpiredIff ==
    token # None =>
        \A m \in 0..MaxMargin :
            is_expired(token[1], m, now)
                <=> now >= token[1].acquired_at + token[1].expires_in - m

C8_Witness ==
    /\ token # None
    /\ token[1].expires_in > Margin
    /\ now = token[1].acquired_at + token[1].expires_in - Margin
    /\ is_expired(token[1], Margin, now)

C20_FailureIsAuthenticationError ==
    (tmLog # << >> /\ LastOp.op = "get_token" /\ Raised(LastOp.result))
        => /\ LastOp.result.exc = Some("AuthenticationError")
           /\ LastOp.posted

(***************************************************************************)
(* C23: invalidate_token is idempotent and does nothing else: every call, *)
(* whether a credential is cached or not and whether the call before it   *)
(* was an invalidate_token too, leaves no cached credential, sends no     *)
(* request, takes no time and does not raise.                              *)
(***************************************************************************)
C23_InvalidateIdempotent ==
    [][(tmLog' # tmLog /\ tmLog'[Len(tmLog')].op = "invalidate_token")
          => /\ token' = None
             /\ token = None => token' = token
             /\ tokenRequests' = tokenRequests
             /\ issued' = issued
             /\ now' = now
             /\ ~Raised(tmLog'[Len(tmLog')].result)]_vars

C23_Witness ==
    /\ Len(tmLog) = 2
    /\ tmLog[1].op = "invalidate_token" /\ tmLog[1].before = "valid"
    /\ tmLog[2].op = "invalidate_token" /\ tmLog[2].before = "absent"
    /\ tmLog[2].tok = tmLog[1].tok
    /\ token = None

(***************************************************************************)
(* C34: a get_token call whose acquisition fails leaves the cached        *)
(* credential exactly as it was before the call (absent stays absent, an  *)
(* expired credential stays cached), so that a get_token call following   *)
(* it attempts the acquisition again.                                      *)
(***************************************************************************)
C34_FailedAcquisitionLeavesCache ==
    [][(tmLog' # tmLog /\ tmLog'[Len(tmLog')].op = "get_token"
          /\ Raised(tmLog'[Len(tmLog')].result))
          => /\ token' = token
             /\ tmLog'[Len(tmLog')].posted
             /\ CacheState(token', Margin, now') \in {"absent", "expired"}
             /\ CacheState(token', Margin, now') = tmLog'[Len(tmLog')].before
       ]_vars
    /\ [](\A k \in 1..(Len(tmLog) - 1) :
             (tmLog[k].op = "get_token" /\ Raised(tmLog[k].result)
                /\ tmLog[k + 1].op = "get_token") => tmLog[k + 1].posted)

C34_Witness ==
    /\ Len(tmLog) = 2
    /\ tmLog[1].op = "get_token" /\ ~Raised(tmLog[1].result)
    /\ tmLog[2].op = "get_token" /\ Raised(tmLog[2].result)
    /\ tmLog[2].before = "expired"
    /\ token # None /\ token = tmLog[1].tok
    /\ tokenRequests = 2

(***************************************************************************)
(* SpecConc: NumCallers coroutines of one event loop call get_token on the *)
(* same TokenManager.  A coroutine is suspended only at the await of      *)
(* client.post inside _acquire_token; the test of the cache before it and *)
(* the assignment of self._token after it run without interruption.       *)
(***************************************************************************)
Callers == 1..NumCallers

InitConc ==
    /\ settings \in {s \in Settings : s.etl_max_retries = 1
                                      /\ s.etl_retry_delay_seconds = 1}
    /\ now = 0
    /\ token = None
    /\ tokenRequests = 0
    /\ issued = 0
    /\ tmLog = << >>
    /\ callers = [c \in Callers |-> [pc |-> "idle", result |-> Return(0)]]
    /\ ewr = NoCall
    /\ attemptLog = << >>
    /\ extractCalls = 0
    /\ sleeps = << >>
    /\ pl = NoCycle
    /\ results = NoResults
    /\ buffer = << >>
    /\ stages = NoStages
    /\ hc = NoHealthCall
    /\ run = NoRun
    /\ db = NoDb
    /\ srv = NoServer

\* get_token up to the await: test the cache, return from it or send the POST
ConcCall(c) ==
    /\ callers[c].pc = "idle"
    /\ IF token = None \/ is_expired(token[1], Margin, now)
       THEN /\ tokenRequests < MaxRequests
            /\ tokenRequests' = tokenRequests + 1
            /\ callers' = [callers EXCEPT ![c].pc = "awaiting"]
       ELSE /\ callers' = [callers EXCEPT
                   ![c] = [pc |-> "done", result |-> Return(token[1].access_token)]]
            /\ UNCHANGED tokenRequests
    /\ UNCHANGED <<appVars, settings, now, token, issued, tmLog, exVars, plVars>>

\* the POST completes: the rest of _acquire_token and of get_token
ConcResume(c) ==
    /\ callers[c].pc = "awaiting"
    /\ \E resp \in TokenResponses :
         LET a == acquire_token(resp, now, issued + 1)
         IN  IF Raised(a)
             THEN /\ callers' = [callers EXCEPT ![c] = [pc |-> "done", result |-> a]]
                  /\ UNCHANGED <<token, issued>>
             ELSE /\ token' = a.value
                  /\ issued' = issued + 1
                  /\ callers' = [callers EXCEPT
                         ![c] = [pc |-> "done",
                                 result |-> Return(a.value[1].access_token)]]
    /\ UNCHANGED <<appVars, settings, now, tokenRequests, tmLog, exVars, plVars>>

\* the caller goes on and may call get_token again
ConcReturn(c) ==
    /\ callers[c].pc = "done"
    /\ callers' = [callers EXCEPT ![c] = [pc |-> "idle", result |-> Return(0)]]
    /\ UNCHANGED <<appVars, settings, now, tmVars, tmLog, exVars, plVars>>

NextConc ==
    \/ \E c \in Callers : ConcCall(c)
    \/ \E c \in Callers : ConcResume(c)
    \/ \E c \in Callers : ConcReturn(c)
    \/ Tick

SpecConc == InitConc /\ [][NextConc]_vars

InFlight == {c \in Callers : callers[c].pc = "awaiting"}

(***************************************************************************)
(* C4: when several callers invoke get_token concurrently while no        *)
(* credential is cached or the cached one is expired under the margin, at *)
(* most one acquisition is in flight at any time.                          *)
(***************************************************************************)
C4_AtMostOneAcquisitionInFlight == Cardinality(InFlight) <= 1

(***************************************************************************)
(* The extractor (extractors/base.py).  The three variants differ only by *)
(* their endpoint path.                                                    *)
(***************************************************************************)
Endpoints ==
    [prices |-> "/api/v1/energy/prices",
     plant |-> "/api/v1/plant/live",
     signals |-> "/api/v1/control/signals/last"]

(***************************************************************************)
(* What the data endpoint may answer to the GET: a 2xx response whose body*)
(* is a non-empty JSON value, an empty JSON object or array, or not JSON; *)
(* an error status; or no response at all.                                 *)
(***************************************************************************)
DataResponses ==
    [kind : {"response"}, status : {200}, body : {"object", "empty", "not_json"},
     latency : 0..MaxLatency]
    \cup [kind : {"response"}, status : {401, 500}, body : {"object"}, latency : {0}]
    \cup [kind : {"transport"}, status : {0}, body : {"object"}, latency : {0}]

\* TokenManager.get_auth_headers
get_auth_headers(tok, margin, resp, t, n) ==
    LET g == get_token(tok, margin, resp, t, n)
    IN  [g EXCEPT !.result = IF Raised(g.result) THEN g.result
                             ELSE Return(<<"Bearer", g.result.value[1]>>)]

\* a handler that discards the credential on every error status
http_status_error_handler_any_status(tok, status_code) ==
    [token |-> None, invalidations |-> 1]

\* the except httpx.HTTPStatusError clause of extract(): what it does to the
\* TokenManager before re-raising
http_status_error_handler_no_invalidate(tok, status_code) ==
    [token |-> tok, invalidations |-> 0]

http_status_error_handler(tok, status_code) ==
    IF status_code = 401
    THEN [token |-> invalidate_token(tok), invalidations |-> 1]
    ELSE [token |-> tok, invalidations |-> 0]

(***************************************************************************)
(* BaseExtractor.extract called at time t: the headers from the           *)
(* TokenManager (tresp answers its POST, if it sends one), then one GET   *)
(* (answered by dresp).  Yields the TokenManager's cache afterwards, the  *)
(* result (the payload, or the exception that leaves extract), the        *)
(* health_metrics dict as extract left it, the Authorization header the   *)
(* GET carried, the invalidate_token calls made and the time at exit.     *)
(***************************************************************************)
extract(endpoint, tok, margin, tresp, dresp, t, n) ==
    LET h == get_auth_headers(tok, margin, tresp, t, n)
        elapsed_ms == dresp.latency * 1000
        health_metrics == [endpoint |-> endpoint, status_code |-> None,
                           response_time_ms |-> None, success |-> FALSE,
                           error_message |-> None]
        base == [token |-> h.token, posted |-> h.posted, sent |-> h.result.value,
                 invalidations |-> 0, t |-> h.t + dresp.latency]
    IN  IF Raised(h.result)
        THEN [token |-> h.token, posted |-> h.posted, sent |-> None,
              invalidations |-> 0, t |-> h.t,
              result |-> h.result, health |-> None]
        ELSE IF dresp.kind = "transport"
        THEN [base EXCEPT !.t = h.t] @@
             [result |-> Raise("RequestError", None),
              health |-> Some([health_metrics EXCEPT
                               !.response_time_ms = Some(0),
                               !.error_message = Some("RequestError")])]
        ELSE IF ~IsSuccessStatus(dresp.status)
        THEN LET e == http_status_error_handler(h.token, dresp.status)
             IN  [base EXCEPT !.token = e.token, !.invalidations = e.invalidations] @@
                 [result |-> Raise("HTTPStatusError", Some(dresp.status)),
                  health |-> Some([health_metrics EXCEPT
                                   !.status_code = Some(dresp.status),
                                   !.response_time_ms = Some(elapsed_ms),
                                   !.error_message = Some("HTTPStatusError")])]
        ELSE IF dresp.body = "not_json"
        THEN base @@
             [result |-> Raise("JSONDecodeError", None),
              health |-> Some([health_metrics EXCEPT
                               !.status_code = Some(dresp.status),
                               !.response_time_ms = Some(elapsed_ms)])]
        ELSE base @@
             [result |-> Return(dresp.body),
              health |-> Some([health_metrics EXCEPT
                               !.status_code = Some(dresp.status),
                               !.response_time_ms = Some(elapsed_ms),
                               !.success = TRUE])]

\* Python's `arg or default` for an optional number: None and 0 are falsy
or_default(arg, default) == IF arg = None \/ arg[1] = 0 THEN default ELSE arg[1]

\* an except clause naming httpx.HTTPStatusError only
Caught_status_error_only(result) ==
    Raised(result) /\ result.exc[1] = "HTTPStatusError"

\* except (httpx.HTTPStatusError, httpx.RequestError)
Caught(result) ==
    Raised(result) /\ result.exc[1] \in {"HTTPStatusError", "RequestError"}

\* `if attempt < max_retries` in the except clause of extract_with_retry
has_retry_left_short(attempt, max_retries) == attempt + 1 < max_retries

has_retry_left(attempt, max_retries) == attempt < max_retries

\* `wait_time = retry_delay * (2 ** attempt)`, the exponential backoff
wait_time_constant(retry_delay, attempt) == retry_delay

wait_time(retry_delay, attempt) == retry_delay * (2 ^ attempt)

\* the last_health_metrics dict built in the except clause of
\* extract_with_retry from the exception e that left extract()
last_health_metrics_no_status(endpoint, e) ==
    [endpoint |-> endpoint, status_code |-> None,
     response_time_ms |-> None, success |-> FALSE, error_message |-> e.exc]

last_health_metrics(endpoint, e) ==
    [endpoint |-> endpoint, status_code |-> e.status,
     response_time_ms |-> None, success |-> FALSE, error_message |-> e.exc]

\* extract_with_retry: the arguments resolved, before the loop
EwrBegin(endpoint, arg_max, arg_delay) ==
    [pc |-> "running", endpoint |-> endpoint,
     arg_max |-> arg_max, arg_delay |-> arg_delay,
     max_retries |-> or_default(arg_max, settings.etl_max_retries),
     retry_delay |-> or_default(arg_delay, settings.etl_retry_delay_seconds),
     attempt |-> 0, data |-> None, health |-> None, exc |-> None]

\* the cycle's use of the TokenManager after one more extract() call, which
\* found the cache in state before
CredentialUse(use, before, x) ==
    [start |-> IF use.start = "unset" THEN before ELSE use.start,
     posts |-> use.posts + (IF x.posted THEN 1 ELSE 0),
     acquired |-> use.acquired + (IF x.posted /\ x.sent # None THEN 1 ELSE 0),
     sent |-> use.sent \cup (IF x.sent = None THEN {} ELSE {x.sent[1][2]}),
     excused |-> use.excused \/ before = "expired" \/ x.invalidations > 0]

\* what one extract() call did, for the record
AttemptRecord(before, x, dresp) ==
    [before |-> before, posted |-> x.posted, sent |-> x.sent,
     exc |-> x.result.exc,
     status |-> IF x.sent = None \/ dresp.kind = "transport"
                THEN None ELSE Some(dresp.status),
     invalidations |-> x.invalidations, token_after |-> x.token,
     error_status |-> x.result.status, payload |-> x.result.value]

(***************************************************************************)
(* One iteration of the loop of extract_with_retry: the extract() call,   *)
(* and on a caught failure last_health_metrics and the backoff sleep.     *)
(* The endpoints answer from tokenResponses and dataResponses; trace says *)
(* what is kept of the attempt: "attempts" (attemptLog and tokenRequests), *)
(* "credential" (the cycle's use of the TokenManager) or "none".           *)
(***************************************************************************)
Attempt(trace, tokenResponses, dataResponses) ==
    /\ ewr.pc = "running"
    /\ \E tresp \in TokenResponsesFor(tokenResponses, token, Margin, now),
          dresp \in dataResponses :
       \E x \in {extract(ewr.endpoint, token, Margin, tresp, dresp, now, issued + 1)} :
         LET last == last_health_metrics(ewr.endpoint, x.result)
             retry == has_retry_left(ewr.attempt, ewr.max_retries)
             wait == wait_time(ewr.retry_delay, ewr.attempt)
         IN  /\ token' = x.token
             /\ tokenRequests' = IF trace = "attempts" /\ x.posted
                                 THEN tokenRequests + 1 ELSE tokenRequests
             /\ issued' = issued + (IF x.posted /\ x.sent # None THEN 1 ELSE 0)
             /\ extractCalls' = extractCalls + 1
             /\ attemptLog' = IF trace = "attempts"
                              THEN LastTwo(attemptLog,
                                       AttemptRecord(CacheState(token, Margin, now), x, dresp))
                              ELSE attemptLog
             /\ pl' = IF trace = "credential"
                      THEN [pl EXCEPT !.use =
                               CredentialUse(@, CacheState(token, Margin, now), x)]
                      ELSE pl
             /\ IF ~Raised(x.result)
                THEN /\ ewr' = [ewr EXCEPT !.pc = "returned",
                                           !.data = x.result.value,
                                           !.health = x.health]
                     /\ now' = x.t
                     /\ UNCHANGED sleeps
                ELSE IF ~Caught(x.result)
                THEN /\ ewr' = [ewr EXCEPT !.pc = "raised", !.exc = x.result.exc]
                     /\ now' = x.t
                     /\ UNCHANGED sleeps
                ELSE IF retry
                THEN /\ ewr' = [ewr EXCEPT !.attempt = @ + 1,
                                           !.health = Some(last)]
                     /\ now' = x.t + wait
                     /\ sleeps' = Append(sleeps, wait)
                ELSE /\ ewr' = [ewr EXCEPT !.pc = "returned", !.data = None,
                                           !.health = Some(last)]
                     /\ now' = x.t
                     /\ UNCHANGED sleeps
    /\ UNCHANGED <<appVars, settings, tmLog, callers, results, buffer, stages>>

EwrAttempt == Attempt("attempts", TokenResponses, DataResponses)

(***************************************************************************)
(* SpecEx: one extractor on a fresh TokenManager; a caller makes one      *)
(* extract_with_retry call with arguments of its choice.                   *)
(***************************************************************************)
OptArgs(hi) == {None} \cup {Some(v) : v \in 0..hi}

InitEx ==
    /\ settings \in Settings
    /\ now = 0
    /\ token = None
    /\ tokenRequests = 0
    /\ issued = 0
    /\ tmLog = << >>
    /\ callers = << >>
    /\ ewr = NoCall
    /\ attemptLog = << >>
    /\ extractCalls = 0
    /\ sleeps = << >>
    /\ pl = NoCycle
    /\ results = NoResults
    /\ buffer = << >>
    /\ stages = NoStages
    /\ hc = NoHealthCall
    /\ run = NoRun
    /\ db = NoDb
    /\ srv = NoServer

EwrCall ==
    /\ ewr.pc = "idle"
    /\ \E arg_max \in OptArgs(MaxRetries), arg_delay \in OptArgs(MaxDelay) :
         ewr' = EwrBegin(Endpoints.prices, arg_max, arg_delay)
    /\ UNCHANGED <<appVars, settings, now, tmVars, tmLog, callers, attemptLog, extractCalls, sleeps, plVars>>

NextEx == EwrCall \/ EwrAttempt

SpecEx == InitEx /\ [][NextEx]_vars

LastAttempt == attemptLog[Len(attemptLog)]

(***************************************************************************)
(* C1: extract_with_retry never raises; whatever makes an attempt fail,   *)
(* it returns a pair to its caller.                                        *)
(***************************************************************************)
C1_NeverRaises == ewr.pc # "raised"

(***************************************************************************)
(* C5: when the data endpoint answers the GET of an extract() call with   *)
(* 401, invalidate_token is called exactly once in that call, and the     *)
(* credential is already discarded when the HTTPStatusError leaves        *)
(* extract().                                                              *)
(***************************************************************************)
C5_UnauthorizedInvalidatesOnce ==
    (attemptLog # << >> /\ LastAttempt.status = Some(401))
        => /\ LastAttempt.invalidations = 1
           /\ LastAttempt.token_after = None
           /\ LastAttempt.exc = Some("HTTPStatusError")

C5_Witness ==
    /\ attemptLog # << >>
    /\ LastAttempt.status = Some(401)
    /\ LastAttempt.sent # None
    /\ LastAttempt.invalidations = 1
    /\ token = None

(***************************************************************************)
(* C10: with max_attempts >= 1 passed explicitly, a call whose attempts   *)
(* all fail with an HTTP error status or a transport failure makes exactly*)
(* max_attempts + 1 extract() calls and then returns (None, outcome with  *)
(* success = false); it does not stop earlier and does not raise.         *)
(***************************************************************************)
C10_ExhaustionAfterMaxPlusOne ==
    (ewr.arg_max # None /\ ewr.arg_max[1] >= 1) =>
        /\ ewr.pc = "running" => extractCalls = ewr.attempt /\ ewr.attempt <= ewr.arg_max[1]
        /\ (ewr.pc = "returned" /\ ewr.data = None)
               => /\ extractCalls = ewr.arg_max[1] + 1
                  /\ ewr.health # None /\ ewr.health[1].success = FALSE
        /\ (ewr.pc = "returned" /\ Caught([exc |-> LastAttempt.exc]))
               => ewr.data = None
        /\ ewr.pc = "raised" => ~Caught([exc |-> LastAttempt.exc])

C10_Witness ==
    /\ ewr.arg_max = Some(MaxRetries)
    /\ ewr.pc = "returned" /\ ewr.data = None
    /\ extractCalls = MaxRetries + 1
    /\ LastAttempt.status = Some(500)
    /\ attemptLog[1].exc = Some("RequestError")

(***************************************************************************)
(* C11: with a positive base delay, the sleep that follows the failed     *)
(* attempt of 0-based index k lasts base_delay * 2^k, so the delays       *)
(* strictly increase; the attempts are sequential, each sleep lying       *)
(* between two attempts: no sleep follows a successful attempt or the     *)
(* last failed attempt.                                                    *)
(***************************************************************************)
C11_ExponentialBackoffBetweenAttempts ==
    ewr.pc # "idle" =>
        /\ ewr.retry_delay > 0
        /\ ewr.arg_delay # None /\ ewr.arg_delay[1] > 0 => ewr.retry_delay = ewr.arg_delay[1]
        /\ \A k \in 1..Len(sleeps) : sleeps[k] = ewr.retry_delay * 2 ^ (k - 1)
        /\ \A k \in 1..(Len(sleeps) - 1) : sleeps[k] < sleeps[k + 1]
        /\ ewr.pc = "running" => Len(sleeps) = extractCalls /\ extractCalls = ewr.attempt
        /\ ewr.pc \in {"returned", "raised"} => Len(sleeps) = extractCalls - 1
        /\ Len(sleeps) <= ewr.max_retries

C11_Witness ==
    /\ ewr.pc = "returned" /\ ewr.data # None
    /\ ewr.arg_delay = Some(1)
    /\ extractCalls = 3
    /\ sleeps = <<1, 2>>

(***************************************************************************)
(* C12: extract_with_retry returns the outcome of the first successful    *)
(* attempt (success = true, that attempt's 2xx status and payload, every  *)
(* attempt before it failed and none follows it) or, when no attempt      *)
(* succeeds, an outcome describing the last failed attempt: success =     *)
(* false, the status code of that attempt's HTTP error (absent for a      *)
(* transport failure) and an error description that is not absent.        *)
(***************************************************************************)
C12_FirstSuccessOrLastFailure ==
    ewr.pc = "returned" =>
        /\ ewr.health # None
        /\ ewr.data # None =>
              /\ LastAttempt.exc = None
              /\ ewr.data = LastAttempt.payload
              /\ ewr.health[1].success
              /\ ewr.health[1].status_code = LastAttempt.status
              /\ IsSuccessStatus(LastAttempt.status[1])
              /\ extractCalls = ewr.attempt + 1
              /\ Len(attemptLog) = 2 => Caught([exc |-> attemptLog[1].exc])
        /\ ewr.data = None =>
              /\ Caught([exc |-> LastAttempt.exc])
              /\ ~ewr.health[1].success
              /\ ewr.health[1].status_code = LastAttempt.error_status
              /\ LastAttempt.exc = Some("RequestError") => ewr.health[1].status_code = None
              /\ LastAttempt.exc = Some("HTTPStatusError") => ewr.health[1].status_code # None
              /\ LastAttempt.sent # None => ewr.health[1].status_code = LastAttempt.status
              /\ ewr.health[1].error_message # None
              /\ ewr.health[1].error_message = LastAttempt.exc

C12_Witness ==
    /\ ewr.pc = "returned" /\ ewr.data = None
    /\ Len(attemptLog) = 2
    /\ attemptLog[1].exc = Some("RequestError")
    /\ LastAttempt.status = Some(500)
    /\ ewr.health[1].status_code = Some(500)
    /\ ewr.health[1].error_message = Some("HTTPStatusError")

(***************************************************************************)
(* C27: within one extract_with_retry call, when an attempt ends with a   *)
(* 401 from the data endpoint and another attempt follows, that attempt   *)
(* finds no cached credential and sends a token request before its GET,   *)
(* and the GET, if it is sent, carries the token just acquired and not the*)
(* invalidated one.                                                        *)
(***************************************************************************)
C27_RetryAfter401Reauthenticates ==
    (Len(attemptLog) = 2 /\ attemptLog[1].sent # None /\ attemptLog[1].status = Some(401))
        => /\ attemptLog[2].before = "absent"
           /\ attemptLog[2].posted
           /\ attemptLog[2].sent # None =>
                 /\ attemptLog[2].sent[1] = <<"Bearer", issued>>
                 /\ attemptLog[2].sent # attemptLog[1].sent

C27_Witness ==
    /\ Len(attemptLog) = 2
    /\ attemptLog[1].sent # None /\ attemptLog[1].status = Some(401)
    /\ attemptLog[2].posted
    /\ attemptLog[2].sent # None
    /\ attemptLog[2].status = Some(200)
    /\ ewr.pc = "returned" /\ ewr.data # None

(***************************************************************************)
(* C33: an extract() call that ends with an HTTP error status other than  *)
(* 401, with a transport failure, or with success leaves the cached       *)
(* credential as get_token left it at the start of the call (as it was    *)
(* before the call, when no acquisition succeeded in it) and calls        *)
(* invalidate_token never; only a 401 answer of the data endpoint discards*)
(* the credential.  A 401 of the token endpoint does not.                 *)
(***************************************************************************)
PrevToken == IF Len(attemptLog) = 2 THEN attemptLog[1].token_after ELSE None

DataAnswered401(a) == a.sent # None /\ a.status = Some(401)

C33_Only401FromDataDiscards ==
    Len(attemptLog) > 0 =>
        LET a == LastAttempt
        IN  IF DataAnswered401(a)
            THEN a.invalidations = 1 /\ a.token_after = None
            ELSE /\ a.invalidations = 0
                 /\ (~a.posted \/ a.sent = None) => a.token_after = PrevToken
                 /\ a.sent # None =>
                        /\ a.token_after # None
                        /\ a.token_after[1].access_token = a.sent[1][2]

C33_Witness ==
    /\ Len(attemptLog) = 2
    /\ attemptLog[1].sent # None /\ attemptLog[1].exc = Some("RequestError")
    /\ LastAttempt.before = "valid"
    /\ ~LastAttempt.posted
    /\ LastAttempt.status = Some(500)
    /\ LastAttempt.token_after = attemptLog[1].token_after
    /\ LastAttempt.token_after # None

(***************************************************************************)
(* C35: a token acquisition that fails with an HTTP error status or a     *)
(* transport failure during an attempt of extract_with_retry counts as a  *)
(* failed attempt: no GET is sent to the data endpoint in that attempt,   *)
(* the attempt is followed by the backoff sleep of its rank and a retry   *)
(* while one is left, and on exhaustion extract_with_retry returns        *)
(* (None, health metrics with success False).                              *)
(***************************************************************************)
AcquisitionFailed(a) ==
    /\ a.posted
    /\ a.sent = None
    /\ a.exc # None /\ a.exc[1] \in {"HTTPStatusError", "RequestError"}

C35_TokenFailureIsFailedAttempt ==
    (Len(attemptLog) > 0 /\ AcquisitionFailed(LastAttempt)) =>
        /\ LastAttempt.status = None /\ LastAttempt.payload = None
        /\ LastAttempt.token_after = PrevToken
        /\ ewr.pc \in {"running", "returned"}
        /\ ewr.health # None /\ ~ewr.health[1].success
        /\ ewr.pc = "running" =>
               /\ ewr.attempt \in 1..ewr.max_retries
               /\ extractCalls = ewr.attempt
               /\ Len(sleeps) = ewr.attempt
               /\ sleeps[Len(sleeps)] = ewr.retry_delay * (2 ^ (ewr.attempt - 1))
        /\ ewr.pc = "returned" =>
               /\ ewr.data = None
               /\ ewr.attempt = ewr.max_retries
               /\ extractCalls = ewr.max_retries + 1
               /\ Len(sleeps) = ewr.max_retries

C35_Witness ==
    /\ Len(attemptLog) = 2
    /\ AcquisitionFailed(attemptLog[1]) /\ attemptLog[1].exc = Some("RequestError")
    /\ AcquisitionFailed(attemptLog[2]) /\ attemptLog[2].error_status = Some(401)
    /\ ewr.pc = "returned"
    /\ ewr.data = None
    /\ extractCalls = 3
    /\ sleeps = <<1, 2>>

(***************************************************************************)
(* C28: the configured defaults are used by extract_with_retry only when  *)
(* the argument is omitted; every explicitly passed value is the one used,*)
(* including max_retries = 0 (exactly one attempt, no retry) and          *)
(* retry_delay = 0 (retries without delay).  The code writes              *)
(* `max_retries or settings.etl_max_retries` and `retry_delay or ...`,    *)
(* so an explicit 0 is replaced by the default.                            *)
(***************************************************************************)
C28_ExplicitArgumentsAreUsed ==
    ewr.pc # "idle" =>
        /\ ewr.max_retries = IF ewr.arg_max = None
                             THEN settings.etl_max_retries ELSE ewr.arg_max[1]
        /\ ewr.retry_delay = IF ewr.arg_delay = None
                             THEN settings.etl_retry_delay_seconds ELSE ewr.arg_delay[1]
        /\ (ewr.arg_max = Some(0) /\ ewr.pc \in {"returned", "raised"})
               => extractCalls = 1 /\ sleeps = << >>

(***************************************************************************)
(* C39: every extract_with_retry call ends after at most max_retries + 1  *)
(* attempts and at most max_retries sleeps, max_retries being the value   *)
(* the caller passed, or the configured default when it passed none.      *)
(* A caller that passes 0 gets the default number of retries (C28).       *)
(***************************************************************************)
C39_AttemptsAndSleepsBounded ==
    ewr.pc # "idle" =>
        LET max_attempts == IF ewr.arg_max = None
                            THEN settings.etl_max_retries ELSE ewr.arg_max[1]
        IN  /\ extractCalls <= max_attempts + 1
            /\ Len(sleeps) <= max_attempts
            /\ extractCalls = max_attempts + 1 => ewr.pc \in {"returned", "raised"}

(***************************************************************************)
(* The orchestrator's cycle, ETLPipeline.run_etl_cycle (main.py).          *)
(*                                                                         *)
(* What the collaborators may do: a transform_* call returns a DataFrame  *)
(* of n rows or raises; a load_* call returns 0 for an empty DataFrame    *)
(* without connecting, and otherwise raises (the connection cannot be     *)
(* opened) or returns how many of the rows it inserted.                    *)
(***************************************************************************)
TransformOutcomes == [kind : {"rows"}, n : 0..MaxRows] \cup [kind : {"raise"}, n : {0}]

LoadOutcomes(n) ==
    IF n = 0 THEN [kind : {"count"}, n : {0}]
    ELSE [kind : {"count"}, n : 0..n] \cup [kind : {"raise"}, n : {0}]

\* The endpoints during a cycle: every token issued has the longest lifetime,
\* and a data response arrives within the second.
CycleTokenResponses ==
    {r \in TokenResponses : r.kind = "response" /\ r.status = 200 /\ r.body = "json"
                               => r.expires_in = MaxLifetime}

CycleDataResponses == {r \in DataResponses : r.latency = 0}

\* Python truthiness of the payload in `if data:`
Truthy(data) == data # None /\ data[1] # "empty"

\* HealthChecker.record_metric
record_metric(buf, metrics) == Append(buf, metrics)

(***************************************************************************)
(* HealthChecker.flush_metrics on buffer buf, where the load_health_metrics*)
(* call for record k returns inserted[k], and the call for record failAt  *)
(* raises (failAt = 0: none raises).  The buffer is cleared only after    *)
(* the loop.                                                               *)
(***************************************************************************)
RECURSIVE SumTo(_, _)
SumTo(f, k) == IF k = 0 THEN 0 ELSE f[k] + SumTo(f, k - 1)

flush_metrics_count_handed(buf, inserted, failAt) ==
    IF buf = << >> THEN [buffer |-> buf, result |-> Return(0)]
    ELSE IF failAt # 0 THEN [buffer |-> buf, result |-> Raise("OperationalError", None)]
    ELSE [buffer |-> << >>, result |-> Return(Len(buf))]

\* flush_metrics leaving the buffer as it found it
flush_metrics_keep_buffer(buf, inserted, failAt) ==
    IF buf = << >> THEN [buffer |-> buf, result |-> Return(0)]
    ELSE IF failAt # 0 THEN [buffer |-> buf, result |-> Raise("OperationalError", None)]
    ELSE [buffer |-> buf, result |-> Return(SumTo(inserted, Len(buf)))]

flush_metrics(buf, inserted, failAt) ==
    IF buf = << >> THEN [buffer |-> buf, result |-> Return(0)]
    ELSE IF failAt # 0 THEN [buffer |-> buf, result |-> Raise("OperationalError", None)]
    ELSE [buffer |-> << >>, result |-> Return(SumTo(inserted, Len(buf)))]

\* sum(1 for m in self._metrics_buffer if m.get("success"))
RECURSIVE CountSuccess(_)
CountSuccess(buf) ==
    IF buf = << >> THEN 0
    ELSE (IF Head(buf).success THEN 1 ELSE 0) + CountSuccess(Tail(buf))

(***************************************************************************)
(* round(100 * success / total, 2), as a whole number of hundredths of a  *)
(* percent: the multiple of 0.01 nearest to the quotient.  The quotient   *)
(* lies halfway between two multiples only when 32 divides total, which   *)
(* needs a buffer longer than any considered here.                         *)
(***************************************************************************)
round2_truncating(success, total) == (10000 * success) \div total

round2(success, total) == (2 * 10000 * success + total) \div (2 * total)

\* HealthChecker.get_summary; success_rate is in hundredths of a percent
get_summary(buf) ==
    IF buf = << >>
    THEN [total |-> 0, success |-> 0, failed |-> 0, success_rate |-> 0]
    ELSE LET total == Len(buf)
             success == CountSuccess(buf)
             failed == total - success
         IN  [total |-> total, success |-> success, failed |-> failed,
              success_rate |-> IF total > 0 THEN round2(success, total) ELSE 0]

\* run_etl_cycle up to the first source's try block
CycleBegin ==
    /\ pl' = [pc |-> "extract", src |-> 1, cycles |-> pl.cycles + 1,
              flushes |-> 0, summary |-> None, use |-> NoUse]
    /\ results' = NoResults
    /\ stages' = NoStages
    /\ ewr' = EwrBegin(Endpoints[Sources[1]], None, None)
    /\ extractCalls' = 0
    /\ sleeps' = << >>
    /\ UNCHANGED <<appVars, settings, now, tmVars, tmLog, callers, attemptLog, buffer>>

CycleStart ==
    /\ pl.pc \in {"idle", "returned"}
    /\ pl.cycles < MaxCycles
    /\ CycleBegin

\* an iteration of the loop of the extract_with_retry call of the current source
CycleAttempt ==
    /\ pl.pc = "extract"
    /\ Attempt("none", CycleTokenResponses, CycleDataResponses)

\* a try block whose record_metric call comes after the load
Process_record_after_load(transforms, loads) ==
    /\ pl.pc = "extract"
    /\ ewr.pc \in {"returned", "raised"}
    /\ LET s == Sources[pl.src]
           recorded == record_metric(buffer, ewr.health[1])
       IN  IF ewr.pc = "raised"
           THEN /\ stages' = [stages EXCEPT ![s] = "extract_raised"]
                /\ UNCHANGED <<buffer, results>>
           ELSE IF ~Truthy(ewr.data)
           THEN /\ stages' = [stages EXCEPT ![s] =
                       IF ewr.data = None THEN "no_payload" ELSE "empty_payload"]
                /\ buffer' = recorded
                /\ UNCHANGED results
           ELSE \E df \in transforms :
                  IF df.kind = "raise"
                  THEN /\ stages' = [stages EXCEPT ![s] = "transform_raised"]
                       /\ UNCHANGED <<buffer, results>>
                  ELSE \E loaded \in LoadOutcomes(df.n) \cap loads :
                         IF loaded.kind = "raise"
                         THEN /\ stages' = [stages EXCEPT ![s] = "load_raised"]
                              /\ UNCHANGED <<buffer, results>>
                         ELSE /\ stages' = [stages EXCEPT ![s] = "loaded"]
                              /\ buffer' = recorded
                              /\ results' = [results EXCEPT ![s] =
                                     [extracted |-> TRUE, loaded |-> loaded.n]]
    /\ IF pl.src < Len(Sources)
       THEN /\ pl' = [pl EXCEPT !.src = @ + 1]
            /\ ewr' = EwrBegin(Endpoints[Sources[pl.src + 1]], None, None)
       ELSE /\ pl' = [pl EXCEPT !.pc = "flush"]
            /\ ewr' = NoCall
    /\ extractCalls' = 0
    /\ sleeps' = << >>
    /\ UNCHANGED <<appVars, settings, now, tmVars, tmLog, callers, attemptLog>>

(***************************************************************************)
(* The rest of a source's try block once extract_with_retry has ended:    *)
(* record_metric, and for a truthy payload transform and load; any        *)
(* exception is caught by the block's `except Exception`.  Then on to the *)
(* next source, or to the flush.  The transformer answers from transforms *)
(* and the loader from loads.                                              *)
(***************************************************************************)
Process(transforms, loads) ==
    /\ pl.pc = "extract"
    /\ ewr.pc \in {"returned", "raised"}
    /\ LET s == Sources[pl.src]
       IN  IF ewr.pc = "raised"
           THEN /\ stages' = [stages EXCEPT ![s] = "extract_raised"]
                /\ UNCHANGED <<buffer, results>>
           ELSE /\ buffer' = record_metric(buffer, ewr.health[1])
                /\ IF ~Truthy(ewr.data)
                   THEN /\ stages' = [stages EXCEPT ![s] =
                               IF ewr.data = None THEN "no_payload" ELSE "empty_payload"]
                        /\ UNCHANGED results
                   ELSE \E df \in transforms :
                          IF df.kind = "raise"
                          THEN /\ stages' = [stages EXCEPT ![s] = "transform_raised"]
                               /\ UNCHANGED results
                          ELSE \E loaded \in LoadOutcomes(df.n) \cap loads :
                                 IF loaded.kind = "raise"
                                 THEN /\ stages' = [stages EXCEPT ![s] = "load_raised"]
                                      /\ UNCHANGED results
                                 ELSE /\ stages' = [stages EXCEPT ![s] = "loaded"]
                                      /\ results' = [results EXCEPT ![s] =
                                             [extracted |-> TRUE, loaded |-> loaded.n]]
    /\ IF pl.src < Len(Sources)
       THEN /\ pl' = [pl EXCEPT !.src = @ + 1]
            /\ ewr' = EwrBegin(Endpoints[Sources[pl.src + 1]], None, None)
       ELSE /\ pl' = [pl EXCEPT !.pc = "flush"]
            /\ ewr' = NoCall
    /\ extractCalls' = 0
    /\ sleeps' = << >>
    /\ UNCHANGED <<appVars, settings, now, tmVars, tmLog, callers, attemptLog>>

CycleProcess ==
    Process(TransformOutcomes, UNION {LoadOutcomes(n) : n \in 0..MaxRows})

(***************************************************************************)
(* The end of run_etl_cycle: flush_metrics, outside any try block, then   *)
(* the summary and `return results`.                                       *)
(***************************************************************************)
CycleFlush ==
    /\ pl.pc = "flush"
    /\ \E inserted \in [1..Len(buffer) -> {0, 1}], failAt \in 0..Len(buffer) :
         LET f == flush_metrics(buffer, inserted, failAt)
         IN  /\ buffer' = f.buffer
             /\ pl' = [pl EXCEPT !.pc = IF Raised(f.result) THEN "raised" ELSE "returned",
                                 !.flushes = @ + 1,
                                 !.summary = IF Raised(f.result) THEN None
                                             ELSE Some(get_summary(f.buffer))]
    /\ UNCHANGED <<appVars, settings, now, tmVars, tmLog, callers, exVars, results, stages>>

Init ==
    /\ settings \in {s \in Settings : s.etl_max_retries = 1
                                      /\ s.etl_retry_delay_seconds = 1
                                      /\ s.token_refresh_margin_seconds = 1}
    /\ now = 0
    /\ token = None
    /\ tokenRequests = 0
    /\ issued = 0
    /\ tmLog = << >>
    /\ callers = << >>
    /\ ewr = NoCall
    /\ attemptLog = << >>
    /\ extractCalls = 0
    /\ sleeps = << >>
    /\ pl = NoCycle
    /\ results = NoResults
    /\ buffer = << >>
    /\ stages = NoStages
    /\ hc = NoHealthCall
    /\ run = NoRun
    /\ db = NoDb
    /\ srv = NoServer

Next == CycleStart \/ CycleAttempt \/ CycleProcess \/ CycleFlush

Spec == Init /\ [][Next]_vars

CycleEnded == pl.pc \in {"returned", "raised"}

(***************************************************************************)
(* C2: when the transform or load step of one source raises, the other two*)
(* sources still go through their own extract, transform and load, their  *)
(* results are in the summary, and run_etl_cycle returns the summary.      *)
(***************************************************************************)
C2_FailureIsolatedAndSummaryReturned ==
    \A s \in SourceNames :
        (CycleEnded /\ stages[s] \in {"transform_raised", "load_raised"})
            => /\ pl.pc = "returned"
               /\ \A o \in SourceNames \ {s} :
                      /\ stages[o] # "pending"
                      /\ stages[o] = "loaded" => results[o].extracted

(***************************************************************************)
(* C3: run_etl_cycle always runs to completion and returns its summary; no*)
(* failure below it, the final flush of the health records included,      *)
(* leaves it as an exception.                                              *)
(***************************************************************************)
C3_CycleNeverAborts == pl.pc # "raised"

(***************************************************************************)
(* C21: in run_etl_cycle, for every source, the payload goes to the       *)
(* transformer and then the loader if and only if extract_with_retry      *)
(* returned a payload (any value other than None, an empty object or      *)
(* array included), and once the loader has returned, the summary marks   *)
(* the source as extracted with the loader's row count.                    *)
(***************************************************************************)
PayloadReturned(s) ==
    stages[s] \in {"empty_payload", "transform_raised", "load_raised", "loaded"}

HandedToTransformer(s) == stages[s] \in {"transform_raised", "load_raised", "loaded"}

C21_PayloadHandedIffReturned ==
    \A s \in SourceNames :
        /\ HandedToTransformer(s) <=> PayloadReturned(s)
        /\ stages[s] = "loaded" => results[s].extracted
        /\ stages[s] # "loaded" => results[s] = NoResults[s]

(***************************************************************************)
(* C22: in every cycle exactly one outcome record per source is recorded  *)
(* into the HealthChecker, three per cycle in the order prices, plant,    *)
(* signals, however many attempts extract_with_retry made and however the *)
(* extraction of the source ended.                                         *)
(***************************************************************************)
C22_OneRecordPerSource ==
    /\ pl.pc = "extract" => Len(buffer) = pl.src - 1
    /\ pl.pc = "flush" =>
          /\ Len(buffer) = Len(Sources)
          /\ \A k \in 1..Len(Sources) : buffer[k].endpoint = Endpoints[Sources[k]]

(***************************************************************************)
(* C30: the health summary run_etl_cycle obtains at its end describes the *)
(* outcomes recorded during that cycle: its total is the number of        *)
(* outcomes recorded in the cycle and its success count the number of     *)
(* sources whose extraction succeeded.  The code calls get_summary after  *)
(* flush_metrics has cleared the buffer.                                   *)
(***************************************************************************)
OutcomeRecorded(s) == stages[s] \notin {"pending", "extract_raised"}

C30_SummaryDescribesCycle ==
    (pl.pc = "returned" /\ pl.summary # None)
        => /\ pl.summary[1].total = Cardinality({s \in SourceNames : OutcomeRecorded(s)})
           /\ pl.summary[1].success = Cardinality({s \in SourceNames : PayloadReturned(s)})

(***************************************************************************)
(* SpecCred: the cycles of Spec, keeping for each cycle its use of the    *)
(* TokenManager the three extractors share.                                *)
(***************************************************************************)
CredCycleStart ==
    /\ pl.pc \in {"idle", "returned"}
    /\ pl.cycles < MaxRunCycles
    /\ CycleBegin

\* the token endpoint issues a credential or cannot be reached; the data
\* endpoint answers 200 with a JSON object, 401 or 500
CredTokenResponses ==
    {r \in CycleTokenResponses : r.kind = "transport" \/ (r.status = 200 /\ r.body = "json")}

CredDataResponses ==
    {r \in CycleDataResponses : r.kind = "response" /\ r.body = "object"}

CredCycleAttempt ==
    /\ pl.pc = "extract"
    /\ Attempt("credential", CredTokenResponses, CredDataResponses)

\* every DataFrame has one row, which the loader stores
CredCycleProcess ==
    Process({df \in TransformOutcomes : df.kind # "raise" /\ df.n = 1},
            {[kind |-> "count", n |-> 1]})

NextCred == CredCycleStart \/ CredCycleAttempt \/ CredCycleProcess \/ CycleFlush

SpecCred == Init /\ [][NextCred]_vars

(***************************************************************************)
(* C38: in run_etl_cycle the outcome of a source's extraction is recorded *)
(* in the HealthChecker before the source's transform and load steps run: *)
(* when the transform or the load of a source raises, the outcome of its  *)
(* extraction is in the buffer all the same, up to the flush at the end   *)
(* of the cycle, and the buffer holds one record for every source whose   *)
(* extraction returned.                                                    *)
(***************************************************************************)
RecordedFor(s) ==
    \E k \in 1..Len(buffer) : buffer[k].endpoint = Endpoints[s] /\ buffer[k].success

C38_OutcomeRecordedBeforeTransformAndLoad ==
    pl.pc \in {"extract", "flush"} =>
        /\ \A s \in SourceNames :
              stages[s] \in {"transform_raised", "load_raised"} => RecordedFor(s)
        /\ Len(buffer) = Cardinality({s \in SourceNames : OutcomeRecorded(s)})

C38_Witness ==
    /\ pl.pc = "flush"
    /\ stages.prices = "transform_raised"
    /\ stages.plant = "load_raised"
    /\ stages.signals = "loaded"
    /\ Len(buffer) = 3
    /\ \A s \in SourceNames : RecordedFor(s)

\* the three extract_with_retry calls of the current cycle are over
ExtractionsOver == pl.pc \in {"flush", "returned", "raised"}

(***************************************************************************)
(* C36 as stated: the three extractors share one credential.  In a cycle  *)
(* during which no data request is answered 401 and no get_token finds    *)
(* the cached credential expired, at most one token acquisition is        *)
(* performed in total (exactly one if no credential was cached at the     *)
(* start of the cycle, none otherwise), and all data requests of the      *)
(* cycle carry the same token.  An acquisition that fails is followed by  *)
(* another one in the same cycle.                                          *)
(***************************************************************************)
C36_AtMostOneAcquisitionPerCycle ==
    ~pl.use.excused =>
        /\ pl.use.posts <= 1
        /\ Cardinality(pl.use.sent) <= 1
        /\ ExtractionsOver =>
               pl.use.posts = IF pl.use.start = "absent" THEN 1 ELSE 0

(***************************************************************************)
(* C36 as amended: in such a cycle at most one credential is acquired     *)
(* (exactly one if none was cached at the start and a data request was    *)
(* sent, none if one was cached), the token endpoint is asked once unless *)
(* an acquisition fails, never when a credential was cached, and all data *)
(* requests of the cycle carry the same token, the cached one.             *)
(***************************************************************************)
C36_AtMostOneCredentialPerCycle ==
    ~pl.use.excused =>
        /\ pl.use.acquired <= 1
        /\ Cardinality(pl.use.sent) <= 1
        /\ pl.use.sent # {} => token # None /\ pl.use.sent = {token[1].access_token}
        /\ pl.use.start = "valid" => pl.use.posts = 0
        /\ pl.use.start = "absent" =>
               /\ pl.use.acquired = 1 <=> pl.use.sent # {}
               /\ pl.use.acquired = 1 <=> token # None
        /\ (ExtractionsOver /\ pl.use.posts = pl.use.acquired) =>
               pl.use.posts = IF pl.use.start = "absent" THEN 1 ELSE 0

C36_Witness ==
    /\ pl.cycles = 2
    /\ pl.pc = "returned"
    /\ ~pl.use.excused
    /\ pl.use.start = "valid"
    /\ pl.use.posts = 0
    /\ pl.use.sent = {1}
    /\ \A s \in SourceNames : stages[s] = "loaded"

(***************************************************************************)
(* The HealthChecker on its own (health/checker.py).                       *)
(*                                                                         *)
(* The metrics dicts a caller may record: one of a successful attempt and *)
(* one of a failed attempt.                                                *)
(***************************************************************************)
HealthMetrics ==
    {[endpoint |-> Endpoints.prices, status_code |-> Some(200),
      response_time_ms |-> Some(0), success |-> TRUE, error_message |-> None],
     [endpoint |-> Endpoints.prices, status_code |-> Some(500),
      response_time_ms |-> None, success |-> FALSE,
      error_message |-> Some("HTTPStatusError")]}

(***************************************************************************)
(* SpecHC: one HealthChecker driven by an arbitrary caller.  For each     *)
(* buffered record the load_health_metrics call returns 1 (row inserted), *)
(* returns 0 (the insert failed and was logged), or raises (the connection*)
(* could not be opened).                                                   *)
(***************************************************************************)
\* how many times each record of the buffer has been handed to
\* load_health_metrics so far
Handed == IF buffer = << >> THEN << >> ELSE hc.handed

\* the same after a flush_metrics call whose failAt-th load call raises
\* (none when failAt is 0)
HandedAfter(failAt) ==
    [k \in 1..Len(buffer) |->
        Handed[k] + (IF failAt = 0 \/ k <= failAt THEN 1 ELSE 0)]

HCRecord ==
    /\ Len(buffer) < MaxBuffer
    /\ \E metrics \in HealthMetrics :
         /\ buffer' = record_metric(buffer, metrics)
         /\ hc' = [op |-> "record_metric", before |-> buffer, stored |-> << >>,
                   handed |-> Append(Handed, 0),
                   result |-> Return(0)]
    /\ UNCHANGED <<run, db, srv, settings, now, tmVars, tmLog, callers, exVars, pl, results, stages>>

HCFlush ==
    /\ \A k \in 1..Len(Handed) : Handed[k] < MaxHanded
    /\ \E inserted \in [1..Len(buffer) -> {0, 1}], failAt \in 0..Len(buffer) :
       \E f \in {flush_metrics(buffer, inserted, failAt)} :
         /\ buffer' = f.buffer
         /\ hc' = [op |-> "flush_metrics", before |-> buffer,
                   stored |-> IF failAt = 0 THEN inserted
                              ELSE [k \in 1..(failAt - 1) |-> inserted[k]],
                   handed |-> HandedAfter(failAt),
                   result |-> f.result]
    /\ UNCHANGED <<run, db, srv, settings, now, tmVars, tmLog, callers, exVars, pl, results, stages>>

HCSummary ==
    /\ hc' = [op |-> "get_summary", before |-> buffer, stored |-> << >>,
              handed |-> Handed,
              result |-> Return(get_summary(buffer))]
    /\ UNCHANGED <<run, db, srv, settings, now, tmVars, tmLog, callers, exVars, plVars>>

NextHC == HCRecord \/ HCFlush \/ HCSummary

SpecHC == Init /\ [][NextHC]_vars

(***************************************************************************)
(* C13: once flush_metrics has been called on a non-empty buffer, the     *)
(* buffer is empty, whether the records were stored, rejected inside the  *)
(* loader, or the loader call failed outright; and no persistence failure *)
(* reaches the caller of flush_metrics.                                    *)
(***************************************************************************)
C13_FlushAlwaysClearsAndNeverRaises ==
    (hc.op = "flush_metrics" /\ hc.before # << >>)
        => /\ buffer = << >>
           /\ ~Raised(hc.result)

(***************************************************************************)
(* C14 as stated: flush_metrics returns the number of records that were   *)
(* in the buffer when it was called, however many of them the loader      *)
(* reports as stored.                                                      *)
(***************************************************************************)
C14_Original ==
    (hc.op = "flush_metrics" /\ ~Raised(hc.result))
        => hc.result.value = Some(Len(hc.before))

(***************************************************************************)
(* C14 as amended: when flush_metrics returns, it returns the number of   *)
(* rows the loader reported as inserted over all the records of the       *)
(* buffer, which is at most the number of records handed to the loader.   *)
(***************************************************************************)
C14_ReturnsRowsReportedStored ==
    (hc.op = "flush_metrics" /\ ~Raised(hc.result))
        => /\ Len(hc.stored) = Len(hc.before)
           /\ hc.result.value = Some(SumTo(hc.stored, Len(hc.stored)))
           /\ hc.result.value[1] <= Len(hc.before)
           /\ (\A k \in 1..Len(hc.stored) : hc.stored[k] = 1)
                  => hc.result.value = Some(Len(hc.before))

C14_Witness ==
    /\ hc.op = "flush_metrics"
    /\ Len(hc.before) = 3
    /\ hc.stored = <<1, 0, 1>>
    /\ hc.result = Return(2)
    /\ buffer = << >>

(***************************************************************************)
(* C15 as stated: for every buffer content get_summary returns total =    *)
(* number of buffered records, success = number whose success flag is     *)
(* true, failed = total - success and success_rate = 100 * success / total*)
(* (0 when total is 0), and leaves the buffer unchanged.                   *)
(***************************************************************************)
C15_Original ==
    hc.op = "get_summary" =>
        LET r == hc.result.value[1]
        IN  /\ buffer = hc.before
            /\ r.total = Len(hc.before)
            /\ r.success = Cardinality({k \in 1..Len(hc.before) : hc.before[k].success})
            /\ r.failed = r.total - r.success
            /\ IF r.total = 0 THEN r.success_rate = 0
               ELSE r.success_rate * r.total = 100 * 100 * r.success

(***************************************************************************)
(* C15 as amended: the same, with success_rate = 100 * success / total    *)
(* rounded to 2 decimals (the multiple of 0.01 nearest to the quotient).  *)
(***************************************************************************)
C15_SummaryWithRoundedRate ==
    hc.op = "get_summary" =>
        LET r == hc.result.value[1]
            err == r.success_rate * r.total - 100 * 100 * r.success
        IN  /\ buffer = hc.before
            /\ r.total = Len(hc.before)
            /\ r.success = Cardinality({k \in 1..Len(hc.before) : hc.before[k].success})
            /\ r.failed = r.total - r.success
            /\ IF r.total = 0 THEN r.success_rate = 0
               ELSE 2 * err <= r.total /\ 2 * err >= 0 - r.total

C15_Witness ==
    /\ hc.op = "get_summary"
    /\ Len(hc.before) = 4
    /\ buffer = hc.before
    /\ hc.result.value[1] = [total |-> 4, success |-> 3, failed |-> 1, success_rate |-> 7500]

(***************************************************************************)
(* C37: across any sequence of record_metric and flush_metrics calls on   *)
(* one HealthChecker each recorded outcome is handed to the loader at     *)
(* most once, also when a flush is ended by a failure of the loader       *)
(* part-way through the buffer and flush_metrics is called again later.   *)
(***************************************************************************)
C37_HandedToLoaderAtMostOnce ==
    \A k \in 1..Len(hc.handed) : hc.handed[k] <= 1

(***************************************************************************)
(* The entry points (main.py): main() runs run_once() or run_scheduled()  *)
(* under asyncio.run.                                                      *)
(***************************************************************************)
Connections == {"token_manager"} \cup SourceNames

\* a close that stops after the TokenManager's client
close_token_manager_only(closed) == closed \cup {"token_manager"}

\* ETLPipeline.close: the TokenManager's client, then each extractor's
close(closed) == closed \cup Connections

Ended == run.pc \in {"returned", "raised"}

\* main(): the arguments are parsed and the chosen coroutine is started; it
\* builds the pipeline and is about to probe the database
MainStart ==
    /\ run.pc = "idle"
    /\ \E once \in BOOLEAN :
         run' = [run EXCEPT !.mode = IF once THEN "once" ELSE "scheduled",
                            !.pc = "probe"]
    /\ UNCHANGED <<hc, db, srv, settings, now, tmVars, tmLog, callers, exVars, plVars>>

\* the probe with its answer ignored: the coroutine goes on to the cycle
RunProbe_unchecked ==
    /\ run.pc = "probe"
    /\ \E ok \in BOOLEAN :
         run' = [run EXCEPT !.probe = Some(ok), !.pc = "cycle"]
    /\ UNCHANGED <<hc, db, srv, settings, now, tmVars, tmLog, callers, exVars, plVars>>

(***************************************************************************)
(* run_once / run_scheduled up to the cycle: test_connection answers ok   *)
(* (it returns False on any exception).  When it is False the coroutine   *)
(* returns (False from run_once, None from run_scheduled) through its     *)
(* finally clause, which closes the pipeline.                              *)
(***************************************************************************)
RunProbe ==
    /\ run.pc = "probe"
    /\ \E ok \in BOOLEAN :
         IF ok
         THEN run' = [run EXCEPT !.probe = Some(TRUE), !.pc = "cycle"]
         ELSE run' = [run EXCEPT !.probe = Some(FALSE), !.pc = "returned",
                                 !.result = IF run.mode = "once" THEN Return(FALSE)
                                            ELSE Return("None"),
                                 !.closed = close(@)]
    /\ UNCHANGED <<hc, db, srv, settings, now, tmVars, tmLog, callers, exVars, plVars>>

\* `await pipeline.run_etl_cycle()` is entered
RunCycleStart ==
    /\ run.pc = "cycle"
    /\ pl.pc = "idle"
    /\ pl.cycles < MaxRunCycles
    /\ CycleBegin

(***************************************************************************)
(* run_etl_cycle has ended.  In run_once: `return True`, or the exception *)
(* goes on, both through the finally clause.  In run_scheduled: on to the *)
(* interval sleep, or the exception, which is no KeyboardInterrupt, goes  *)
(* on through the finally clause and ends the loop.                        *)
(***************************************************************************)
RunCycleEnd ==
    /\ run.pc = "cycle"
    /\ pl.pc \in {"returned", "raised"}
    /\ IF pl.pc = "raised"
       THEN /\ run' = [run EXCEPT !.pc = "raised",
                                  !.result = Raise("OperationalError", None),
                                  !.closed = close(@)]
            /\ UNCHANGED pl
       ELSE IF run.mode = "once"
       THEN /\ run' = [run EXCEPT !.pc = "returned", !.result = Return(TRUE),
                                  !.closed = close(@)]
            /\ UNCHANGED pl
       ELSE /\ run' = [run EXCEPT !.pc = "sleep"]
            /\ pl' = [pl EXCEPT !.pc = "idle"]
    /\ UNCHANGED <<hc, db, srv, settings, now, tmVars, tmLog, callers, exVars, results, buffer, stages>>

\* asyncio.sleep(settings.etl_poll_interval_seconds) is over
RunWake ==
    /\ run.pc = "sleep"
    /\ now' = now + settings.etl_poll_interval_seconds
    /\ run' = [run EXCEPT !.pc = "cycle"]
    /\ UNCHANGED <<hc, db, srv, settings, tmVars, tmLog, callers, exVars, plVars>>

(***************************************************************************)
(* The process receives SIGINT while the coroutine runs under asyncio.run.*)
(* While the coroutine is suspended (the interval sleep, or an await      *)
(* inside the cycle) the event loop cancels the task and the coroutine    *)
(* gets asyncio.CancelledError at its await; Python 3.11 and later do so  *)
(* wherever the signal arrives.  Earlier versions raise KeyboardInterrupt *)
(* in the running frame when the signal arrives while code of the cycle   *)
(* is executing.  Neither is an Exception, so no handler of the cycle     *)
(* catches it; run_scheduled catches KeyboardInterrupt only, run_once     *)
(* catches neither, and the finally clause of both closes the pipeline.   *)
(***************************************************************************)
Delivered ==
    IF run.pc = "sleep" THEN {"CancelledError"}
    ELSE {"CancelledError", "KeyboardInterrupt"}

Interrupt ==
    /\ \/ run.pc \in {"probe", "sleep"}
       \/ run.pc = "cycle" /\ pl.pc \in {"extract", "flush"}
    /\ \E e \in Delivered :
         LET caught == e = "KeyboardInterrupt" /\ run.mode = "scheduled"
         IN  run' = [run EXCEPT !.interrupted = TRUE,
                                !.pc = IF caught THEN "returned" ELSE "raised",
                                !.result = IF caught THEN Return("None")
                                           ELSE Raise(e, None),
                                !.closed = close(@)]
    /\ pl' = [pl EXCEPT !.pc = IF run.pc = "cycle" THEN "interrupted" ELSE @]
    /\ UNCHANGED <<hc, db, srv, settings, now, tmVars, tmLog, callers, exVars, results, buffer, stages>>

(***************************************************************************)
(* asyncio.run is over and main() ends: main ignores what the coroutine   *)
(* returned and calls no sys.exit, so the status is 0 unless an exception *)
(* left asyncio.run.                                                       *)
(***************************************************************************)
exit_status(result) == IF Raised(result) THEN 1 ELSE 0

MainExit ==
    /\ Ended
    /\ run.exit_status = None
    /\ run' = [run EXCEPT !.exit_status = Some(exit_status(run.result))]
    /\ UNCHANGED <<hc, db, srv, settings, now, tmVars, tmLog, callers, exVars, plVars>>

NextRun ==
    \/ MainStart
    \/ RunProbe
    \/ RunCycleStart
    \/ CycleAttempt
    \/ CycleProcess
    \/ CycleFlush
    \/ RunCycleEnd
    \/ RunWake
    \/ Interrupt
    \/ MainExit

SpecRun == Init /\ [][NextRun]_vars

(***************************************************************************)
(* C16: run_once probes the database first; when the probe fails no       *)
(* extraction, load or flush happens and run_once returns False; when the *)
(* probe succeeds exactly one run_etl_cycle is executed and run_once      *)
(* returns True.  (Runs without an interrupt.)                             *)
(***************************************************************************)
C16_RunOnceProbeThenOneCycle ==
    (run.mode = "once" /\ ~run.interrupted) =>
        /\ run.probe = None => pl = NoCycle
        /\ (Ended /\ run.probe = Some(FALSE))
              => /\ run.result = Return(FALSE)
                 /\ pl = NoCycle /\ ewr = NoCall /\ buffer = << >>
        /\ (Ended /\ run.probe = Some(TRUE))
              => /\ pl.cycles = 1
                 /\ run.result = Return(TRUE)

(***************************************************************************)
(* C17: when the program is started with --once and the probe fails, the  *)
(* process exits with a non-zero status.                                   *)
(***************************************************************************)
C17_OnceProbeFailureExitsNonZero ==
    (run.mode = "once" /\ run.probe = Some(FALSE) /\ run.exit_status # None)
        => run.exit_status[1] # 0

(***************************************************************************)
(* C18: when the interrupt arrives while run_scheduled is in its interval *)
(* sleep or inside a cycle, run_scheduled stops looping, closes the       *)
(* TokenManager's and the three extractors' connections, and returns      *)
(* normally: no exception leaves it.                                       *)
(***************************************************************************)
C18_InterruptClosesAndReturns ==
    (run.mode = "scheduled" /\ run.interrupted)
        => /\ Ended
           /\ run.closed = Connections
           /\ run.pc = "returned"

(***************************************************************************)
(* C19: in scheduled mode, once the start-up probe has succeeded, no      *)
(* failure during a cycle (a failing flush of the health records          *)
(* included) ends the loop: without an interrupt run_scheduled never ends.*)
(***************************************************************************)
C19_LoopEndsOnlyOnInterrupt ==
    (run.mode = "scheduled" /\ run.probe = Some(TRUE) /\ ~run.interrupted)
        => ~Ended

(***************************************************************************)
(* C31: run_scheduled probes the database exactly once, before the first  *)
(* cycle; if the probe fails no cycle ever runs; otherwise cycles and     *)
(* sleeps strictly alternate: a cycle starts only when no cycle is in     *)
(* progress, the first right after the successful probe and every later   *)
(* one right after a sleep of the configured interval, a returned cycle   *)
(* is followed by the sleep, and there is no probe between cycles.         *)
(***************************************************************************)
C31_ProbeOnceThenCyclesAndSleepsAlternate ==
    [][run'.mode = "scheduled" =>
         \* the probe: once, before any cycle
         /\ run'.probe # run.probe =>
                run.probe = None /\ run.pc = "probe" /\ pl = NoCycle
         /\ run'.pc = "probe" => run'.probe = None /\ pl' = NoCycle
         /\ run'.probe # Some(TRUE) => pl' = NoCycle
         \* a cycle starts after the probe or after a sleep, never during a cycle
         /\ pl'.cycles # pl.cycles =>
                /\ pl'.cycles = pl.cycles + 1
                /\ run.pc = "cycle" /\ run.probe = Some(TRUE)
                /\ pl.pc = "idle"
         /\ (run'.pc = "cycle" /\ run.pc # "cycle") =>
                \/ run.pc = "probe" /\ pl'.cycles = 0
                \/ /\ run.pc = "sleep" /\ pl'.cycles > 0 /\ pl'.pc = "idle"
                   /\ now' = now + settings.etl_poll_interval_seconds
         \* a returned cycle is followed by the sleep
         /\ (run.pc = "cycle" /\ pl.pc = "returned" /\ run' # run) =>
                run'.pc = "sleep" /\ pl'.pc = "idle" /\ pl'.cycles = pl.cycles
         /\ run'.pc = "sleep" => run.pc \in {"sleep", "cycle"} /\ pl'.pc = "idle"
      ]_vars

C31_Witness ==
    /\ run.mode = "scheduled"
    /\ run.probe = Some(TRUE)
    /\ run.pc = "sleep"
    /\ pl.cycles = 2
    /\ now >= settings.etl_poll_interval_seconds

(***************************************************************************)
(* C32: on every exit path of run_once and run_scheduled (the probe       *)
(* fails, the coroutine completes, an exception leaves a cycle, the task  *)
(* is cancelled or interrupted) close has been called on the TokenManager *)
(* and on the three extractors, and the connection of each is closed.     *)
(***************************************************************************)
C32_EveryExitPathCloses ==
    Ended => run.closed = Connections

C32_Witness ==
    /\ run.mode = "once"
    /\ run.interrupted
    /\ pl.pc = "interrupted"
    /\ run.result = Raise("CancelledError", None)
    /\ run.closed = Connections
    /\ run.exit_status = Some(1)

(***************************************************************************)
(* C29: the health buffer carries no state across cycles.  In scheduled   *)
(* mode the buffer is empty whenever a cycle starts, so that during the   *)
(* cycle it holds outcomes of this cycle's sources only; and within a     *)
(* cycle flush_metrics is called exactly once, after all three sources    *)
(* have been processed and before run_etl_cycle returns.  (A flush that   *)
(* raises keeps the buffer, but the exception ends run_scheduled: no      *)
(* cycle follows it.)                                                      *)
(***************************************************************************)
C29_BufferEmptyAtCycleStartFlushOnce ==
    run.mode = "scheduled" =>
        /\ (run.pc \in {"cycle", "sleep"} /\ pl.pc = "idle") => buffer = << >>
        /\ pl.pc = "extract" => pl.flushes = 0 /\ Len(buffer) <= pl.src - 1
        /\ pl.pc = "flush" =>
               pl.flushes = 0 /\ \A s \in SourceNames : stages[s] # "pending"
        /\ pl.pc \in {"returned", "raised"} =>
               pl.flushes = 1 /\ \A s \in SourceNames : stages[s] # "pending"
        /\ pl.pc = "returned" => buffer = << >>
        /\ pl.flushes <= 1

C29_Witness ==
    /\ run.mode = "scheduled"
    /\ pl.cycles = 2
    /\ pl.pc = "returned"
    /\ pl.flushes = 1
    /\ \A s \in SourceNames : stages[s] = "loaded"
    /\ buffer = << >>

(***************************************************************************)
(* The loader (loaders/postgres.py).  A table is the sequence of its rows;*)
(* a row is reduced to its natural key (one number standing for the key   *)
(* columns) and one value standing for the other columns.                  *)
(***************************************************************************)
Tables == {"energy_prices", "plant_status", "control_signals", "api_health_logs"}

\* the tables whose INSERT names a conflict target
ConflictTarget == {"energy_prices", "control_signals"}

TableRows(table) ==
    [key : 1..MaxKeys,
     value : IF table \in ConflictTarget THEN {"old", "new"} ELSE {"new"}]

\* the DataFrames handed to a load_* call: at most one row per natural key,
\* in key order
Batches(table) ==
    UNION {{b \in [1..n -> TableRows(table)] :
               \A i \in 1..n : \A j \in 1..n : i < j => b[i].key < b[j].key}
           : n \in 0..MaxKeys}

(***************************************************************************)
(* What may go wrong in a load_* call: nothing; the connection cannot be  *)
(* opened; or the execute of row `at` raises, either before the statement *)
(* reaches the server ("client": a missing column, a value psycopg cannot *)
(* adapt) or because the server rejects it ("server": a constraint or type*)
(* error).                                                                 *)
(***************************************************************************)
Failures(n) ==
    {[at |-> 0, kind |-> "none"]}
    \cup (IF n > 0 THEN {[at |-> 0, kind |-> "connect"]} ELSE {})
    \cup [at : 1..n, kind : {"client", "server"}]

Position(rows, key) == CHOOSE i \in 1..Len(rows) : rows[i].key = key

HasKey(rows, key) == \E i \in 1..Len(rows) : rows[i].key = key

\* the INSERT statement of each load_* method, applied to the rows the
\* transaction sees
execute_plain_insert(table, rows, row) == Append(rows, row)

execute(table, rows, row) ==
    IF table = "energy_prices" /\ HasKey(rows, row.key)
    THEN [rows EXCEPT ![Position(rows, row.key)] = row]
    ELSE IF table = "control_signals" /\ HasKey(rows, row.key)
    THEN rows
    ELSE Append(rows, row)

\* rows the statement inserts or updates
affected(table, rows, row) ==
    IF table = "control_signals" /\ HasKey(rows, row.key) THEN 0 ELSE 1

(***************************************************************************)
(* The `for _, row in df.iterrows()` loop from row k on.  The connection  *)
(* is not in autocommit mode: the statements run in one transaction, a    *)
(* statement the server rejects leaves the transaction aborted, and every *)
(* later execute then raises as well; each exception is caught and logged *)
(* by the row's try block.                                                 *)
(***************************************************************************)
RECURSIVE iterrows(_, _, _, _, _)
iterrows(table, st, batch, k, fail) ==
    IF k > Len(batch) THEN st
    ELSE LET raises == st.aborted \/ fail.at = k
             next == IF raises
                     THEN [st EXCEPT !.aborted = @ \/ (fail.at = k /\ fail.kind = "server"),
                                     !.attempted = @ + 1]
                     ELSE [txn |-> execute(table, st.txn, batch[k]),
                           aborted |-> FALSE,
                           inserted |-> st.inserted + 1,
                           affected |-> st.affected + affected(table, st.txn, batch[k]),
                           attempted |-> st.attempted + 1]
         IN  iterrows(table, next, batch, k + 1, fail)

(***************************************************************************)
(* A load_* method on the table holding rows: 0 for an empty DataFrame;   *)
(* otherwise connect, run the loop, commit (which rolls back an aborted   *)
(* transaction) and return `inserted`.                                     *)
(***************************************************************************)
load(table, rows, batch, fail) ==
    IF batch = << >>
    THEN [rows |-> rows, result |-> Return(0), attempted |-> 0, stored |-> 0]
    ELSE IF fail.kind = "connect"
    THEN [rows |-> rows, result |-> Raise("OperationalError", None),
          attempted |-> 0, stored |-> 0]
    ELSE LET st == iterrows(table, [txn |-> rows, aborted |-> FALSE, inserted |-> 0,
                                    affected |-> 0, attempted |-> 0], batch, 1, fail)
         IN  [rows |-> IF st.aborted THEN rows ELSE st.txn,
              result |-> Return(st.inserted),
              attempted |-> st.attempted,
              stored |-> IF st.aborted THEN 0 ELSE st.affected]

(***************************************************************************)
(* SpecLoad: one table, empty at first, and a caller making load_* calls  *)
(* on it with DataFrames of its choice.                                    *)
(***************************************************************************)
InitLoad ==
    /\ settings \in {s \in Settings : s.etl_max_retries = 1
                                      /\ s.etl_retry_delay_seconds = 1
                                      /\ s.token_refresh_margin_seconds = 1}
    /\ now = 0
    /\ token = None
    /\ tokenRequests = 0
    /\ issued = 0
    /\ tmLog = << >>
    /\ callers = << >>
    /\ ewr = NoCall
    /\ attemptLog = << >>
    /\ extractCalls = 0
    /\ sleeps = << >>
    /\ pl = NoCycle
    /\ results = NoResults
    /\ buffer = << >>
    /\ stages = NoStages
    /\ hc = NoHealthCall
    /\ run = NoRun
    /\ db \in {[NoDb EXCEPT !.table = t] : t \in Tables}
    /\ srv = NoServer

Load(table) ==
    /\ db.table = table
    /\ db.loads < MaxLoads
    /\ \E batch \in Batches(table) :
       \E fail \in Failures(Len(batch)) :
       \E l \in {load(table, db.rows, batch, fail)} :
         db' = [table |-> table,
                rows |-> l.rows,
                loads |-> db.loads + 1,
                last |-> [batch |-> batch, fail |-> fail, before |-> db.rows,
                          result |-> l.result, attempted |-> l.attempted,
                          stored |-> l.stored,
                          repeat |-> /\ db.loads > 0
                                     /\ db.last.batch = batch
                                     /\ db.last.fail.kind = "none"
                                     /\ fail.kind = "none"]]
    /\ UNCHANGED <<hc, run, srv, settings, now, tmVars, tmLog, callers, exVars, plVars>>

load_energy_prices == Load("energy_prices")

load_plant_status == Load("plant_status")

load_control_signals == Load("control_signals")

load_health_metrics == Load("api_health_logs")

NextLoad ==
    \/ load_energy_prices
    \/ load_plant_status
    \/ load_control_signals
    \/ load_health_metrics

SpecLoad == InitLoad /\ [][NextLoad]_vars

\* the rows of the table with the given natural key
RowsWithKey(rows, key) == {i \in 1..Len(rows) : rows[i].key = key}

(***************************************************************************)
(* C24: loading the same rows twice into energy_prices or control_signals *)
(* leaves exactly one row per natural key, the same table as after the    *)
(* first load; loading the same rows twice into plant_status or           *)
(* api_health_logs appends them twice.                                     *)
(***************************************************************************)
C24_UpsertIdempotentOthersAppend ==
    db.last.repeat =>
        LET batch == db.last.batch
            once == db.last.before
        IN  IF db.table \in ConflictTarget
            THEN /\ db.rows = once
                 /\ \A k \in 1..Len(batch) :
                        /\ Cardinality(RowsWithKey(db.rows, batch[k].key)) = 1
                 /\ \A key \in 1..MaxKeys : Cardinality(RowsWithKey(db.rows, key)) <= 1
            ELSE /\ db.rows = once \o batch
                 /\ Len(once) >= Len(batch)
                 /\ SubSeq(once, Len(once) - Len(batch) + 1, Len(once)) = batch

C24_Witness ==
    /\ db.last.repeat
    /\ db.table = "energy_prices"
    /\ Len(db.last.batch) = MaxKeys
    /\ db.rows = db.last.batch

(***************************************************************************)
(* C25: in every load_* call, a failure while inserting one row does not  *)
(* abort the batch: every row of the batch is still attempted, no         *)
(* exception for the row reaches the caller, and the count returned is    *)
(* the number of rows inserted into or updated in the table.               *)
(***************************************************************************)
C25_RowFailureIsolated ==
    db.last.fail.kind \in {"client", "server"} =>
        /\ ~Raised(db.last.result)
        /\ db.last.attempted = Len(db.last.batch)
        /\ db.last.result.value = Some(db.last.stored)
        /\ \A k \in 1..Len(db.last.batch) :
              k # db.last.fail.at => HasKey(db.rows, db.last.batch[k].key)

(***************************************************************************)
(* The mock server (mock_server/).  A JWT is reduced to its subject, its  *)
(* expiry time and the key that signed it; only the server holds          *)
(* SECRET_KEY, so a token a requester made up is signed with another key. *)
(***************************************************************************)
SECRET_KEY == "energy-trading-secret-key"

VALID_CLIENTS == [c \in {"energy_trading_client"} |-> "super_secret_key_2024"]

\* token lifetime, in the model's time unit
ACCESS_TOKEN_EXPIRE_MINUTES == MaxLifetime

ClientIds == {"energy_trading_client", "unknown_client"}

ClientSecrets == {"super_secret_key_2024", "wrong_secret"}

DataPaths ==
    {"/api/v1/energy/prices", "/api/v1/energy/prices/latest",
     "/api/v1/plant/live", "/api/v1/plant/summary",
     "/api/v1/control/signals/last", "/api/v1/control/signals"}

\* tokens not made by the server, none of them past its expiry
ForgedTokens ==
    [sub : {Some(c) : c \in ClientIds} \cup {None}, exp : {MaxTime}, key : {"another-key"}]

create_access_token(sub, expires_delta, t) ==
    [sub |-> Some(sub), exp |-> t + expires_delta, key |-> SECRET_KEY]

verify_client_credentials(client_id, client_secret) ==
    IF client_id \notin DOMAIN VALID_CLIENTS THEN FALSE
    ELSE VALID_CLIENTS[client_id] = client_secret

\* jwt.decode: the signature, then the expiry claim (a token is rejected
\* once the clock is past exp)
jwt_decode_no_exp(tok, key, t) ==
    IF tok.key # key THEN Raise("JWTError", None)
    ELSE Return(tok)

jwt_decode(tok, key, t) ==
    IF tok.key # key THEN Raise("JWTError", None)
    ELSE IF tok.exp < t THEN Raise("ExpiredSignatureError", None)
    ELSE Return(tok)

(***************************************************************************)
(* get_current_client for a request whose Authorization header carries    *)
(* bearer (None: no bearer token, which OAuth2PasswordBearer answers 401):*)
(* the client id, or the HTTPException 401.                                *)
(***************************************************************************)
get_current_client(bearer, t) ==
    IF bearer = None THEN Raise("HTTPException", Some(401))
    ELSE LET payload == jwt_decode(bearer[1], SECRET_KEY, t)
         IN  IF Raised(payload) THEN Raise("HTTPException", Some(401))
             ELSE IF payload.value[1].sub = None THEN Raise("HTTPException", Some(401))
             ELSE IF payload.value[1].sub[1] \notin DOMAIN VALID_CLIENTS
                  THEN Raise("HTTPException", Some(401))
             ELSE Return(payload.value[1].sub[1])

\* POST /oauth/token
login_for_access_token ==
    /\ \E username \in ClientIds, password \in ClientSecrets :
         IF ~verify_client_credentials(username, password)
         THEN srv' = [srv EXCEPT !.last =
                         [path |-> "/oauth/token", username |-> username,
                          password |-> password, token |-> None, t |-> now,
                          status |-> 401, body |-> None]]
         ELSE LET access_token ==
                      create_access_token(username, ACCESS_TOKEN_EXPIRE_MINUTES, now)
              IN  srv' = [issued |-> srv.issued \cup {access_token},
                          last |-> [path |-> "/oauth/token", username |-> username,
                                    password |-> password, token |-> None, t |-> now,
                                    status |-> 200, body |-> Some(access_token)]]
    /\ UNCHANGED <<hc, run, db, settings, now, tmVars, tmLog, callers, exVars, plVars>>

(***************************************************************************)
(* GET on a data path: the get_current_client dependency, then the        *)
(* handler, which answers 200 with the fixture data, or 500 or 404 when   *)
(* the fixture file is missing or empty.                                   *)
(***************************************************************************)
DataRequest(paths) ==
    /\ \E path \in paths :
       \E bearer \in {None} \cup {Some(tok) : tok \in srv.issued \cup ForgedTokens} :
       \E current_client \in {get_current_client(bearer, now)} :
       \E status \in IF Raised(current_client) THEN {current_client.status[1]}
                     ELSE {200, 404, 500} :
         srv' = [srv EXCEPT !.last =
                    [path |-> path, username |-> "", password |-> "",
                     token |-> bearer, t |-> now, status |-> status, body |-> None]]
    /\ UNCHANGED <<hc, run, db, settings, now, tmVars, tmLog, callers, exVars, plVars>>

get_prices == DataRequest({"/api/v1/energy/prices", "/api/v1/energy/prices/latest"})

get_live_status == DataRequest({"/api/v1/plant/live", "/api/v1/plant/summary"})

get_signals_by_date == DataRequest({"/api/v1/control/signals/last", "/api/v1/control/signals"})

NextMock ==
    \/ login_for_access_token
    \/ get_prices
    \/ get_live_status
    \/ get_signals_by_date
    \/ Tick

SpecMock == Init /\ [][NextMock]_vars

(***************************************************************************)
(* C26: the mock server serves a data endpoint only to a request whose    *)
(* bearer token was issued by its /oauth/token endpoint to a registered   *)
(* client presenting the correct secret and is not past its expiry; every *)
(* other request to a data endpoint is answered 401; and /oauth/token     *)
(* answers 401 to an unknown client or a wrong secret.                     *)
(***************************************************************************)
C26_DataOnlyWithIssuedUnexpiredToken ==
    /\ \A tok \in srv.issued :
          /\ tok.sub # None /\ tok.sub[1] \in DOMAIN VALID_CLIENTS
          /\ tok.exp <= now + ACCESS_TOKEN_EXPIRE_MINUTES
    /\ srv.last.path \in DataPaths =>
          LET authorized == /\ srv.last.token # None
                            /\ srv.last.token[1] \in srv.issued
                            /\ srv.last.t <= srv.last.token[1].exp
          IN  IF authorized THEN srv.last.status # 401 ELSE srv.last.status = 401
    /\ srv.last.path = "/oauth/token" =>
          LET registered == /\ srv.last.username \in DOMAIN VALID_CLIENTS
                            /\ VALID_CLIENTS[srv.last.username] = srv.last.password
          IN  IF registered
              THEN /\ srv.last.status = 200
                   /\ srv.last.body # None /\ srv.last.body[1] \in srv.issued
                   /\ srv.last.body[1].sub = Some(srv.last.username)
              ELSE srv.last.status = 401 /\ srv.last.body = None

C26_Witness ==
    /\ srv.last.path = "/api/v1/energy/prices"
    /\ srv.last.token # None
    /\ srv.last.token[1] \in srv.issued
    /\ srv.last.t > srv.last.token[1].exp
    /\ srv.last.status = 401

====
